---- MODULE Spec2Model ----
(***************************************************************************)
(* Lindblad evolution with time-discrete controls and the GRAPE            *)
(* optimization driver built on it (qoc/core/lindbladdiscrete.py).         *)
(*                                                                         *)
(* Real numbers are fixed-point integers in units of 1/FP: 1.0 is FP and   *)
(* a product rounds towards minus infinity, as a float product rounds.     *)
(* A density matrix is a Hermitian 2x2 matrix, held as the four reals      *)
(* <<rho00, Re rho01, Im rho01, rho11>>; a batch is a sequence of them.    *)
(* None is the empty sequence and a present optional value x is <<x>>.     *)
(***************************************************************************)
EXTENDS Integers, Sequences, FiniteSets, TLC

\* ------------------------------------------------------------------ bounds
FP == 24
MaxControlSteps == 2
MaxMultiplier == 2

\* ------------------------------------------------------- fixed-point reals
None == <<>>
Some(x) == <<x>>
IsNone(o) == o = <<>>
Get(o) == o[1]

Mul(x, y) == (x * y) \div FP
Half == FP \div 2
Sixth == FP \div 6
Abs(x) == IF x < 0 THEN -x ELSE x
Sign(x) == IF x < 0 THEN -1 ELSE IF x > 0 THEN 1 ELSE 0

\* one Hermitian 2x2 matrix
VAdd(u, v) == [i \in 1..4 |-> u[i] + v[i]]
VScale(s, u) == [i \in 1..4 |-> Mul(s, u[i])]
VTimes(n, u) == [i \in 1..4 |-> n * u[i]]
ZeroMatrix == <<0, 0, 0, 0>>

\* a batch of them
BAdd(p, q) == [i \in 1..Len(p) |-> VAdd(p[i], q[i])]
BScale(s, p) == [i \in 1..Len(p) |-> VScale(s, p[i])]
BTimes(n, p) == [i \in 1..Len(p) |-> VTimes(n, p[i])]

\* ---------------------------------------------------- interpolation policy
LINEAR == "LINEAR"
CUBIC == "CUBIC"
InterpolationPolicy == {LINEAR, CUBIC}

\* interpolate_linear(x1, x2, x3, y1, y2): the value at x3 of the line through
\* (x1, y1) and (x2, y2), for a control vector y
interpolate_linear(x1, x2, x3, y1, y2) ==
    [i \in 1..Len(y1) |-> y1[i] + ((y2[i] - y1[i]) * (x3 - x1)) \div (x2 - x1)]

\* ------------------------------------------------- collaborators of a step
\* hamiltonian(controls, time): the coefficient h of the Hamiltonian h * sigma_x.
\* "const" ignores its controls; "ctrl" is controls[0] * matrix.
HamiltonianKinds == {"const", "ctrl"}
hamiltonian_fn(kind, c, t) == IF kind = "ctrl" THEN c[1] ELSE FP

\* lindblad_data(time): (dissipators, operators), here one operator sigma_minus
\* with rate gamma = 2
gamma == 2
lindblad_data_fn(kind, t) == <<gamma * FP, "sigma_minus">>

\* -i [h sigma_x, rho] on <<a, b, c, d>>
commutator_term(h, rho) ==
    <<-2 * Mul(h, rho[3]), 0, Mul(h, rho[1] - rho[4]), 2 * Mul(h, rho[3])>>

\* g (L rho L^dagger - 1/2 {L^dagger L, rho}) for L = sigma_minus
dissipator_term(g, rho) ==
    <<Mul(g, rho[4]), -Mul(Mul(g, Half), rho[2]), -Mul(Mul(g, Half), rho[3]),
      -Mul(g, rho[4])>>

\* get_lindbladian(densities, dissipators, hamiltonian, operators): each part is
\* left out when its data is None, and with both left out the result is zero
get_lindbladian(densities, g, h, l) ==
    [i \in 1..Len(densities) |->
        VAdd(IF IsNone(h) THEN ZeroMatrix ELSE commutator_term(Get(h), densities[i]),
             IF IsNone(g) \/ IsNone(l) THEN ZeroMatrix
             ELSE dissipator_term(Get(g), densities[i]))]

\* ----------------------------------------- _evolve_step_lindblad_discrete
\* controls[i] as Python resolves it: a negative index counts from the end
PyIndexOk(seq, i) == -Len(seq) <= i /\ i < Len(seq)
PyIndex(seq, i) == IF i >= 0 THEN seq[i + 1] ELSE seq[Len(seq) + i + 1]

\* the indices of the two bounding controls (lines 360-365)
control_left_index(control_sentinel, control_step) ==
    IF control_sentinel THEN control_step - 1 ELSE control_step
control_right_index(control_sentinel, control_step) ==
    IF control_sentinel THEN control_step ELSE control_step + 1

\* the policy never looked at
evolve_step_error_policy_ignored(control_sentinel, control_step, controls, interpolation_policy) ==
    IF IsNone(controls) THEN None
    ELSE IF ~PyIndexOk(controls, control_left_index(control_sentinel, control_step))
            \/ ~PyIndexOk(controls, control_right_index(control_sentinel, control_step))
         THEN Some("IndexError")
    ELSE None

\* what stops the step before it integrates: None, or the error raised
evolve_step_error(control_sentinel, control_step, controls, interpolation_policy) ==
    IF IsNone(controls) THEN None
    ELSE IF ~PyIndexOk(controls, control_left_index(control_sentinel, control_step))
            \/ ~PyIndexOk(controls, control_right_index(control_sentinel, control_step))
         THEN Some("IndexError")
    ELSE IF interpolation_policy # LINEAR THEN Some("ValueError")
    ELSE None

\* the weighted increments returned without the batch they are added to
rk4_increment_only(densities, dt, g1, h1, l1, g2, h2, l2, g3, h3, l3, g4, h4, l4) ==
    LET k1 == BScale(dt, get_lindbladian(densities, g1, h1, l1))
        k2 == BScale(dt, get_lindbladian(BAdd(densities, BScale(Half, k1)), g2, h2, l2))
        k3 == BScale(dt, get_lindbladian(BAdd(densities, BScale(Half, k2)), g3, h3, l3))
        k4 == BScale(dt, get_lindbladian(BAdd(densities, k3), g4, h4, l4))
    IN [k1 |-> k1, k2 |-> k2, k3 |-> k3, k4 |-> k4,
        densities |->
            BScale(Sixth, BAdd(BAdd(k1, BTimes(2, k2)), BAdd(BTimes(2, k3), k4)))]

\* the four Runge-Kutta increments and the evolved batch (lines 353-402)
rk4(densities, dt, g1, h1, l1, g2, h2, l2, g3, h3, l3, g4, h4, l4) ==
    LET k1 == BScale(dt, get_lindbladian(densities, g1, h1, l1))
        k2 == BScale(dt, get_lindbladian(BAdd(densities, BScale(Half, k1)), g2, h2, l2))
        k3 == BScale(dt, get_lindbladian(BAdd(densities, BScale(Half, k2)), g3, h3, l3))
        k4 == BScale(dt, get_lindbladian(BAdd(densities, k3), g4, h4, l4))
    IN [k1 |-> k1, k2 |-> k2, k3 |-> k3, k4 |-> k4,
        densities |->
            BAdd(densities,
                 BScale(Sixth, BAdd(BAdd(k1, BTimes(2, k2)), BAdd(BTimes(2, k3), k4))))]

_evolve_step_lindblad_discrete(densities, dt, time, control_sentinel, control_step, controls, hamiltonian, interpolation_policy, lindblad_data) ==
    LET t1 == time
        t2 == time + Mul(Half, dt)
        t3 == t2
        t4 == time + dt
        has_c == ~IsNone(controls)
        control_left ==
            PyIndex(controls, control_left_index(control_sentinel, control_step))
        control_right ==
            PyIndex(controls, control_right_index(control_sentinel, control_step))
        c1 == IF has_c THEN control_left ELSE None
        c2 == IF has_c THEN interpolate_linear(t1, t4, t2, control_left, control_right)
              ELSE None
        c3 == c2
        c4 == IF has_c THEN control_right ELSE None
        has_h == ~IsNone(hamiltonian)
        h1 == IF has_h THEN Some(hamiltonian_fn(Get(hamiltonian), c1, t1)) ELSE None
        h2 == IF has_h THEN Some(hamiltonian_fn(Get(hamiltonian), c2, t2)) ELSE None
        h3 == h2
        h4 == IF has_h THEN Some(hamiltonian_fn(Get(hamiltonian), c4, t4)) ELSE None
        has_l == ~IsNone(lindblad_data)
        d1 == lindblad_data_fn(lindblad_data, t1)
        d2 == lindblad_data_fn(lindblad_data, t2)
        d3 == lindblad_data_fn(lindblad_data, t3)
        d4 == lindblad_data_fn(lindblad_data, t4)
        g1 == IF has_l THEN Some(d1[1]) ELSE None
        l1 == IF has_l THEN Some(d1[2]) ELSE None
        g2 == IF has_l THEN Some(d2[1]) ELSE None
        l2 == IF has_l THEN Some(d2[2]) ELSE None
        g3 == IF has_l THEN Some(d3[1]) ELSE None
        l3 == IF has_l THEN Some(d3[2]) ELSE None
        g4 == IF has_l THEN Some(d4[1]) ELSE None
        l4 == IF has_l THEN Some(d4[2]) ELSE None
    IN rk4(densities, dt, g1, h1, l1, g2, h2, l2, g3, h3, l3, g4, h4, l4)

\* ------------------------------------------------------ control adapters
\* slap_controls(complex_controls, controls, controls_shape) for real controls:
\* the flat vector reshaped row by row to control_step_count x control_count
slap_controls(flat, controls_shape) ==
    [s \in 1..controls_shape[1] |->
        [i \in 1..controls_shape[2] |-> flat[(s - 1) * controls_shape[2] + i]]]

\* strip_controls(complex_controls, controls) for real controls: the rows laid end
\* to end
strip_controls(controls) ==
    [k \in 1..(Len(controls) * Len(controls[1])) |->
        controls[((k - 1) \div Len(controls[1])) + 1][((k - 1) % Len(controls[1])) + 1]]

\* a complex control is the pair <<real part, imaginary part>>
ComplexAdd(z, w) == <<z[1] + w[1], z[2] + w[2]>>
TimesI(z) == <<-z[2], z[1]>>

\* strip_controls(complex_controls, controls): the rows laid end to end; complex
\* controls become their real parts followed by their imaginary parts
strip_controls_packed(complex_controls, controls) ==
    LET flattened == strip_controls(controls)
        n == Len(flattened)
    IN IF complex_controls
       THEN [k \in 1..(2 * n) |->
                IF k <= n THEN flattened[k][1] ELSE flattened[k - n][2]]
       ELSE flattened

\* slap_controls(complex_controls, controls, controls_shape): complex controls are
\* rebuilt as real + 1j * imag from the two halves of the vector, then the vector
\* is reshaped
slap_controls_packed(complex_controls, flat, controls_shape) ==
    LET n == Len(flat) \div 2
        rebuilt == [k \in 1..n |->
                       ComplexAdd(<<flat[k], 0>>, TimesI(<<flat[n + k], 0>>))]
    IN slap_controls(IF complex_controls THEN rebuilt ELSE flat, controls_shape)

\* clip_control_norms(max_control_norms, controls): every entry of channel i whose
\* magnitude exceeds max_control_norms[i] is rescaled to that magnitude
clip_control_norms(max_control_norms, controls) ==
    [s \in 1..Len(controls) |->
        [i \in 1..Len(controls[s]) |->
            IF max_control_norms[i] < Abs(controls[s][i])
            THEN Sign(controls[s][i]) * max_control_norms[i]
            ELSE controls[s][i]]]

\* ------------------------------------------------------------------ costs
\* a cost collaborator: its name, whether it is evaluated at every step, and
\* cost(controls, densities, system_step)
RECURSIVE SumOver(_, _, _)
SumOver(densities, k, n) ==
    IF n = 0 THEN 0 ELSE densities[n][k] + SumOver(densities, k, n - 1)

CostNames == {"target", "forbid"}
\* TargetDensityInfidelity, by its name field
TargetDensityInfidelity == "target_density_infidelity"
requires_step_evaluation(name) == name = "forbid"
\* whether the cost method of the class takes the operation_policy keyword:
\* TargetDensityInfidelity.cost(self, controls, densities, sytem_eval_step) does not
accepts_operation_policy(name) == name # TargetDensityInfidelity
cost_fn(name, controls, densities, system_step) ==
    IF name = "target"
    THEN Len(densities) * FP - SumOver(densities, 1, Len(densities))
    ELSE SumOver(densities, 4, Len(densities))

\* ---------------------------------------------------------- program state
\* what the program state derives once from its configuration
dt_of(evolution_time, control_step_count, system_step_multiplier) ==
    (evolution_time * FP) \div (control_step_count * system_step_multiplier)
final_control_step_of(control_step_count) == control_step_count - 1
final_system_step_of(control_step_count, system_step_multiplier) ==
    control_step_count * system_step_multiplier - 1
step_costs_of(costs) == SelectSeq(costs, requires_step_evaluation)

\* EvolveLindbladDiscreteState / GrapeLindbladDiscreteState, as the two entry
\* points construct it from their arguments
ProgramState(entry, control_count, control_step_count, costs, evolution_time, hamiltonian, initial_controls, initial_densities, interpolation_policy, iteration_count, lindblad_data, max_control_norms, system_step_multiplier) ==
    [entry |-> entry,
     complex_controls |-> FALSE,
     control_count |-> control_count,
     control_step_count |-> control_step_count,
     controls_shape |-> <<control_step_count, control_count>>,
     costs |-> costs,
     step_costs |-> step_costs_of(costs),
     dt |-> dt_of(evolution_time, control_step_count, system_step_multiplier),
     final_control_step |-> final_control_step_of(control_step_count),
     final_system_step |->
         final_system_step_of(control_step_count, system_step_multiplier),
     hamiltonian |-> hamiltonian,
     initial_controls |-> initial_controls,
     initial_densities |-> initial_densities,
     interpolation_policy |-> interpolation_policy,
     iteration_count |-> iteration_count,
     lindblad_data |-> lindblad_data,
     max_control_norms |-> max_control_norms,
     system_step_multiplier |-> system_step_multiplier]

\* ------------------------------------------------------------ input sets
ControlValues == {-2 * FP, 0}
NormValues == {FP}
ControlCounts == {1}
EvolutionTimes == {1}
IterationCounts == {2}
Excited == <<0, 0, 0, FP>>
Mixed == <<FP \div 2, FP \div 4, 0, FP \div 2>>
DensityBatches == {<<Excited>>, <<Mixed, Excited>>}
CostLists ==
    {<<>>, <<"target">>, <<"forbid">>, <<"forbid", "target">>,
     <<TargetDensityInfidelity>>, <<"forbid", TargetDensityInfidelity>>}

ControlArrays(n, c) == [1..n -> [1..c -> ControlValues]]
FlatVectors(n, c) == [1..(n * c) -> ControlValues]

\* the configurations a caller can construct; grape_lindblad_discrete starts
\* from initial controls within the norms (initialize_controls)
EvolveConfigs ==
    {ProgramState("evolve", c, n, costs, T, h, None, rho, ip, 0, ld, None, m) :
        c \in ControlCounts, n \in 1..MaxControlSteps, costs \in CostLists,
        T \in EvolutionTimes,
        h \in {None} \cup {Some(k) : k \in HamiltonianKinds},
        rho \in DensityBatches, ip \in InterpolationPolicy,
        ld \in {None, Some("decay")}, m \in 1..MaxMultiplier}

GrapeConfigs ==
    UNION {
      {ProgramState("grape", c, n, costs, T, h, ctl, rho, ip, ic, ld, norms, m) :
        costs \in CostLists, ic \in IterationCounts, T \in EvolutionTimes,
        h \in {None} \cup {Some(k) : k \in HamiltonianKinds},
        ctl \in {x \in ControlArrays(n, c) : \A s \in 1..n : \A i \in 1..c :
                                                Abs(x[s][i]) <= norms[i]},
        rho \in DensityBatches, ip \in InterpolationPolicy,
        ld \in {None, Some("decay")}, m \in 1..MaxMultiplier} :
      <<c, n, norms>> \in
        UNION {{<<c2, n2, nm>> : nm \in [1..c2 -> NormValues]} :
                 <<c2, n2>> \in ControlCounts \X (1..MaxControlSteps)}}

Configs == EvolveConfigs \cup GrapeConfigs

\* ------------------------------------------------------------------ state
VARIABLES
    pstate,        \* the program state, fixed at construction
    pc,            \* "start", "loop" (inside _evaluate_lindblad_discrete), "post"
                   \* (in _eldj_wrap, after the jacobian), "optimizer" (between two
                   \* calls of the optimizer), "done", "returned", "error"
    mode,          \* who runs the evaluation: "evolve", "eld", "eldj" or "none"
    flat,          \* the flat vector the optimizer passed to the current wrapper
    controls,      \* the structured controls of the current evaluation, or None
    system_step,   \* the loop variable of _evaluate_lindblad_discrete
    densities,     \* its local densities: [value, boxed]
    total_error,   \* its local total_error
    reporter,      \* the reporter: iteration, final_densities, total_error
    result,        \* GrapeLindbladResult
    calls,         \* evaluations the optimizer has asked for
    error,         \* None, or the exception that ended the run
    step_log,      \* the integrator invocations of the current evaluation
    cost_log,      \* the cost invocations of the current evaluation
    events,        \* the steps of the current wrapper call, in order
    saved,         \* the calls of pstate.log_and_save, in order
    jacobians,     \* what each completed jacobian evaluation returned, in order
    roundtrip      \* the packing round trip of the controls: stage, x, flat, back

vars == <<pstate, pc, mode, flat, controls, system_step, densities, total_error,
          reporter, result, calls, error, step_log, cost_log, events, saved,
          jacobians, roundtrip>>

\* a tie taken for an improvement
LessThan_or_equal(x, best) == IsNone(best) \/ x <= Get(best)

\* best_total_error starts at +infinity, which is None here
LessThan(x, best) == IsNone(best) \/ x < Get(best)

GrapeLindbladResult ==
    [best_controls |-> None, best_final_densities |-> None,
     best_iteration |-> None, best_total_error |-> None]

Init ==
    /\ pstate \in Configs
    /\ pc = "start"
    /\ mode = "none"
    /\ flat = None
    /\ controls = None
    /\ system_step = 0
    /\ densities = None
    /\ total_error = 0
    /\ reporter = [iteration |-> None, final_densities |-> None, total_error |-> None]
    /\ result = GrapeLindbladResult
    /\ calls = 0
    /\ error = None
    /\ step_log = <<>>
    /\ cost_log = <<>>
    /\ events = <<>>
    /\ saved = <<>>
    /\ jacobians = <<>>
    /\ roundtrip = [stage |-> "off"]

\* lines 261-273: the locals of _evaluate_lindblad_discrete before its loop
EnterEvaluation(c) ==
    /\ controls' = c
    /\ system_step' = 0
    /\ densities' = [value |-> pstate.initial_densities, boxed |-> FALSE]
    /\ total_error' = 0
    /\ step_log' = <<>>
    /\ cost_log' = <<>>
    /\ pc' = "loop"

\* evolve_lindblad_discrete (lines 70-81): the result record is the reporter
evolve_lindblad_discrete(c) ==
    /\ pc = "start"
    /\ pstate.entry = "evolve"
    /\ IsNone(c) => pstate.hamiltonian # Some("ctrl")
    /\ mode' = "evolve"
    /\ reporter' = [iteration |-> None, final_densities |-> None, total_error |-> None]
    /\ events' = <<"_evaluate_lindblad_discrete">>
    /\ EnterEvaluation(c)
    /\ UNCHANGED <<roundtrip, pstate, flat, result, calls, error, saved, jacobians>>

\* grape_lindblad_discrete up to the optimizer's run (lines 127-166)
grape_lindblad_discrete ==
    /\ pc = "start"
    /\ pstate.entry = "grape"
    /\ reporter' = [reporter EXCEPT !.iteration = Some(0)]
    /\ result' = GrapeLindbladResult
    /\ flat' = strip_controls(pstate.initial_controls)
    /\ pc' = "optimizer"
    /\ UNCHANGED <<roundtrip, pstate, mode, controls, system_step, densities, total_error,
                   calls, error, step_log, cost_log, events, saved, jacobians>>

\* the vector the optimizer evaluates next: its initial parameters first
OptimizerParams ==
    IF calls = 0 THEN {flat}
    ELSE FlatVectors(pstate.control_step_count, pstate.control_count)

\* the clip left out
wrap_controls_unclipped(x) == slap_controls(x, pstate.controls_shape)

\* lines 187-190 and 210-213: unpack, then clip
wrap_controls(x) ==
    clip_control_norms(pstate.max_control_norms,
                       slap_controls(x, pstate.controls_shape))

\* _eld_wrap (lines 187-193)
eld_prologue == <<"slap_controls", "clip_control_norms", "_evaluate_lindblad_discrete">>
_eld_wrap(x) ==
    /\ pc = "optimizer"
    /\ calls < pstate.iteration_count
    /\ flat' = x
    /\ mode' = "eld"
    /\ events' = eld_prologue
    /\ EnterEvaluation(wrap_controls(x))
    /\ calls' = calls + 1
    /\ UNCHANGED <<roundtrip, pstate, reporter, result, error, saved, jacobians>>

\* the clip moved into the differentiated function
eldj_prologue_clip_inside ==
    <<"slap_controls", "ans_jacobian", "clip_control_norms",
      "_evaluate_lindblad_discrete">>

\* _eldj_wrap up to the call of the jacobian (lines 210-217)
eldj_prologue ==
    <<"slap_controls", "clip_control_norms", "ans_jacobian",
      "_evaluate_lindblad_discrete">>
_eldj_wrap(x) ==
    /\ pc = "optimizer"
    /\ calls < pstate.iteration_count
    /\ flat' = x
    /\ mode' = "eldj"
    /\ events' = eldj_prologue
    /\ EnterEvaluation(wrap_controls(x))
    /\ calls' = calls + 1
    /\ UNCHANGED <<roundtrip, pstate, reporter, result, error, saved, jacobians>>

\* lines 292-293 and 300-301: cost.cost(controls, densities, system_step,
\* operation_policy=operation_policy); a method without that parameter raises
cost_call_keywords(name) == Some("operation_policy")
cost_call_error(name) ==
    IF ~IsNone(cost_call_keywords(name)) /\ ~accepts_operation_policy(name)
    THEN Some("TypeError") ELSE None

\* the first exception a branch of lines 290-303 raises, if any
RECURSIVE costs_raised(_)
costs_raised(cost_list) ==
    IF cost_list = <<>> THEN None
    ELSE IF ~IsNone(cost_call_error(Head(cost_list)))
         THEN cost_call_error(Head(cost_list))
         ELSE costs_raised(Tail(cost_list))

\* the costs of one branch of lines 290-303, each called once, in order, up to
\* the first call that raises
RECURSIVE cost_calls(_, _, _, _)
cost_calls(cost_list, c, rho, step) ==
    IF cost_list = <<>> \/ ~IsNone(cost_call_error(Head(cost_list))) THEN <<>>
    ELSE <<[name |-> Head(cost_list), system_step |-> step, densities |-> rho,
            error |-> cost_fn(Head(cost_list), c, rho, step)]>>
         \o cost_calls(Tail(cost_list), c, rho, step)

RECURSIVE sum_errors(_)
sum_errors(log) == IF log = <<>> THEN 0 ELSE Head(log).error + sum_errors(Tail(log))

\* the two branches exchanged
costs_at_swapped(is_final_system_step) ==
    IF is_final_system_step THEN pstate.step_costs ELSE pstate.costs

\* lines 290 and 298: the costs the loop evaluates at a step
costs_at(is_final_system_step) ==
    IF is_final_system_step THEN pstate.costs ELSE pstate.step_costs

\* under the jacobian the controls are traced, and so is every batch computed
\* from a Hamiltonian that reads them (an autograd Box)
traced(rho_boxed) ==
    rho_boxed \/ (mode = "eldj" /\ pstate.hamiltonian = Some("ctrl"))

\* the objective wrapper continuing as the gradient wrapper does
after_return_to_post == IF mode = "evolve" THEN "done" ELSE "post"

\* line 306 and the caller's next line
after_return ==
    IF mode = "evolve" THEN "done" ELSE IF mode = "eld" THEN "optimizer" ELSE "post"

\* the remainder of the division taken for its quotient
control_step_at_remainder(step) == step % pstate.system_step_multiplier

\* lines 276 and 279: the control step and the time of a system step
control_step_at(step) == step \div pstate.system_step_multiplier
time_at(step) == step * pstate.dt

\* one iteration of the loop of _evaluate_lindblad_discrete (lines 275-304), and
\* after the last one its return (line 306)
evaluate_step ==
    /\ pc = "loop"
    /\ LET control_step == control_step_at(system_step)
           is_final_control_step == control_step = pstate.final_control_step
           is_final_system_step == system_step = pstate.final_system_step
           time == time_at(system_step)
           raised == evolve_step_error(is_final_control_step, control_step, controls,
                                       pstate.interpolation_policy)
           step == _evolve_step_lindblad_discrete(
                       densities.value, pstate.dt, time, is_final_control_step,
                       control_step, controls, pstate.hamiltonian,
                       pstate.interpolation_policy, pstate.lindblad_data)
           invocation ==
               [system_step |-> system_step, time |-> time,
                control_step |-> control_step,
                control_sentinel |-> is_final_control_step,
                left |-> IF IsNone(controls) THEN None
                         ELSE Some(control_left_index(is_final_control_step,
                                                      control_step)),
                right |-> IF IsNone(controls) THEN None
                          ELSE Some(control_right_index(is_final_control_step,
                                                        control_step)),
                input |-> densities.value,
                output |-> IF IsNone(raised) THEN Some(step.densities) ELSE None]
           invoked == cost_calls(costs_at(is_final_system_step), controls,
                                 step.densities, system_step)
           cost_raised == costs_raised(costs_at(is_final_system_step))
           total == total_error + sum_errors(invoked)
           evolved == [value |-> step.densities, boxed |-> traced(densities.boxed)]
       IN /\ step_log' = Append(step_log, invocation)
          /\ IF ~IsNone(raised)
             THEN /\ pc' = "error"
                  /\ error' = raised
                  /\ UNCHANGED <<system_step, densities, total_error, reporter,
                                 cost_log, events, jacobians>>
             ELSE /\ densities' = evolved
                  /\ total_error' = total
                  /\ cost_log' = cost_log \o invoked
                  /\ error' = cost_raised
                  /\ IF ~IsNone(cost_raised)
                     THEN /\ pc' = "error"
                          /\ UNCHANGED <<system_step, reporter, events, jacobians>>
                     ELSE IF is_final_system_step
                     THEN /\ reporter' = [reporter EXCEPT
                                            !.final_densities = Some(evolved),
                                            !.total_error = Some(total)]
                          /\ pc' = after_return
                          /\ system_step' = system_step
                          /\ events' = IF mode = "eldj"
                                       THEN Append(events, "ans_jacobian returns")
                                       ELSE events
                          /\ jacobians' =
                               IF mode = "eldj"
                               THEN Append(jacobians,
                                           [controls |-> controls,
                                            final_densities |-> evolved.value,
                                            total_error |-> total,
                                            iteration |-> Get(reporter.iteration)])
                               ELSE jacobians
                     ELSE /\ system_step' = system_step + 1
                          /\ pc' = "loop"
                          /\ UNCHANGED <<reporter, events, jacobians>>
    /\ UNCHANGED <<roundtrip, pstate, mode, flat, controls, result, calls, saved>>

\* the gradient the jacobian returns with total_error, as the point it is taken at
Gradient(c) == [at |-> c]

\* _eldj_wrap after the jacobian (lines 218-243). final_densities is bound only
\* when reporter.final_densities is a Box (lines 225-226); reading it unbound
\* raises UnboundLocalError, at line 231 after best_controls is assigned or,
\* without an improvement, at line 236 before log_and_save is called.
eldj_finish ==
    /\ pc = "post"
    /\ LET is_box == Get(reporter.final_densities).boxed
           final_densities == Get(reporter.final_densities).value
           improved == LessThan(total_error, result.best_total_error)
           grads == Gradient(controls)
       IN IF is_box
          THEN /\ result' = IF improved
                            THEN [best_controls |-> Some(controls),
                                  best_final_densities |-> Some(final_densities),
                                  best_iteration |-> reporter.iteration,
                                  best_total_error |-> Some(total_error)]
                            ELSE result
               /\ saved' = Append(saved,
                                  [controls |-> controls,
                                   final_densities |-> final_densities,
                                   total_error |-> total_error,
                                   grads |-> grads,
                                   iteration |-> Get(reporter.iteration)])
               /\ reporter' = [reporter EXCEPT
                                 !.iteration = Some(Get(reporter.iteration) + 1)]
               /\ events' = events \o <<"log_and_save", "strip_controls">>
               /\ pc' = "optimizer"
               /\ error' = error
          ELSE /\ result' = IF improved
                            THEN [result EXCEPT !.best_controls = Some(controls)]
                            ELSE result
               /\ pc' = "error"
               /\ error' = Some("UnboundLocalError")
               /\ UNCHANGED <<saved, reporter, events>>
    /\ UNCHANGED <<roundtrip, pstate, mode, flat, controls, system_step, densities, total_error,
                   calls, step_log, cost_log, jacobians>>

\* the optimizer's run returns and grape_lindblad_discrete returns the result
\* (lines 165-168)
optimizer_returns ==
    /\ pc = "optimizer"
    /\ calls = pstate.iteration_count
    /\ pc' = "returned"
    /\ UNCHANGED <<roundtrip, pstate, mode, flat, controls, system_step, densities, total_error,
                   reporter, result, calls, error, step_log, cost_log, events, saved,
                   jacobians>>

Next ==
    \/ \E c \in {None} \cup ControlArrays(pstate.control_step_count,
                                          pstate.control_count) :
          evolve_lindblad_discrete(c)
    \/ grape_lindblad_discrete
    \/ \E x \in OptimizerParams : _eld_wrap(x)
    \/ \E x \in OptimizerParams : _eldj_wrap(x)
    \/ evaluate_step
    \/ eldj_finish
    \/ optimizer_returns

Spec == Init /\ [][Next]_vars

\* ------------------------------------------- the packing of the controls
\* The optimizer works on a flat real vector. grape_lindblad_discrete packs the
\* initial controls (lines 161-162) and the wrappers unpack what the optimizer
\* hands back (lines 187-189 and 210-212); controls may be real or complex.
RoundTripControlCounts == {1, 2}
ComplexValues == ControlValues \X ControlValues
InitialControlArrays(complex_controls, n, c) ==
    [1..n -> [1..c -> IF complex_controls THEN ComplexValues ELSE ControlValues]]

\* the fields of the program state that the packing reads
PackingStates ==
    UNION { UNION { UNION {
        { [entry |-> "packing", complex_controls |-> b, controls_shape |-> <<n, c>>,
           initial_controls |-> x] : x \in InitialControlArrays(b, n, c) }
        : c \in RoundTripControlCounts } : n \in 1..MaxControlSteps } : b \in BOOLEAN }

InitRoundTrip ==
    /\ pstate \in PackingStates
    /\ pc = "start"
    /\ mode = "none"
    /\ flat = None
    /\ controls = None
    /\ system_step = 0
    /\ densities = None
    /\ total_error = 0
    /\ reporter = [iteration |-> None, final_densities |-> None, total_error |-> None]
    /\ result = GrapeLindbladResult
    /\ calls = 0
    /\ error = None
    /\ step_log = <<>>
    /\ cost_log = <<>>
    /\ events = <<>>
    /\ saved = <<>>
    /\ jacobians = <<>>
    /\ roundtrip = [stage |-> "start"]

\* the shape handed to slap_controls with its two axes exchanged
unpack_controls_transposed(state, x) ==
    slap_controls_packed(state.complex_controls, x,
                         <<state.controls_shape[2], state.controls_shape[1]>>)

\* lines 161-162: initial_params = strip_controls(complex_controls, initial_controls)
pack_initial_controls(state) ==
    strip_controls_packed(state.complex_controls, state.initial_controls)

\* lines 187-189 and 210-212: controls = slap_controls(complex_controls, controls,
\* controls_shape)
unpack_controls(state, x) ==
    slap_controls_packed(state.complex_controls, x, state.controls_shape)

StripInitialControls ==
    /\ roundtrip.stage = "start"
    /\ roundtrip' = [stage |-> "stripped", flat |-> pack_initial_controls(pstate)]
    /\ UNCHANGED <<pstate, pc, mode, flat, controls, system_step, densities,
                   total_error, reporter, result, calls, error, step_log, cost_log,
                   events, saved, jacobians>>

SlapInitialParams ==
    /\ roundtrip.stage = "stripped"
    /\ roundtrip' = [stage |-> "slapped", flat |-> roundtrip.flat,
                     controls |-> unpack_controls(pstate, roundtrip.flat)]
    /\ UNCHANGED <<pstate, pc, mode, flat, controls, system_step, densities,
                   total_error, reporter, result, calls, error, step_log, cost_log,
                   events, saved, jacobians>>

NextRoundTrip ==
    \/ StripInitialControls
    \/ SlapInitialParams

SpecRoundTrip == InitRoundTrip /\ [][NextRoundTrip]_vars

\* ================================================================ claims
\* no handler is running: the optimizer or the caller can look at the state
Quiescent == pc \in {"optimizer", "returned", "done", "error"}

\* the evaluation that ran last returned its total_error (it did not raise
\* inside the loop)
EvaluationReturned ==
    /\ mode # "none"
    /\ pc # "loop"
    /\ pc = "error" => error = Some("UnboundLocalError")

RECURSIVE MinError(_)
MinError(js) ==
    IF js = <<>> THEN None
    ELSE LET rest == MinError(Tail(js))
         IN IF LessThan(Head(js).total_error, rest) THEN Some(Head(js).total_error)
            ELSE rest

\* C1: whenever no handler is running, best_total_error is the minimum of the
\* total errors returned by the jacobian evaluations so far (+infinity before the
\* first), hence it never increases from one evaluation to the next.
C1_BestIsMinimum ==
    Quiescent => result.best_total_error = MinError(jacobians)

\* C2: whenever best_controls is set, it is the clipped structured controls of a
\* jacobian evaluation, and every entry best_controls[step, i] has magnitude at
\* most max_control_norms[i].
C2_BestControlsWithinNorms ==
    ~IsNone(result.best_controls) =>
        LET best == Get(result.best_controls)
        IN /\ \A s \in 1..Len(best) : \A i \in 1..Len(best[s]) :
                 Abs(best[s][i]) <= pstate.max_control_norms[i]
           /\ best = clip_control_norms(pstate.max_control_norms, best)
           /\ \E k \in 1..Len(jacobians) : jacobians[k].controls = best

\* C2 witness: the optimizer passed an entry beyond the norm and the clipped
\* controls became the best ones.
C2_Witness ==
    /\ pc = "optimizer"
    /\ mode = "eldj"
    /\ \E k \in 1..Len(flat) : Abs(flat[k]) > pstate.max_control_norms[1]
    /\ result.best_controls = Some(controls)
    /\ controls # slap_controls(flat, pstate.controls_shape)

\* the result holds the four values of one jacobian evaluation
ResultOf(j) ==
    [best_controls |-> Some(j.controls),
     best_final_densities |-> Some(j.final_densities),
     best_iteration |-> Some(j.iteration),
     best_total_error |-> Some(j.total_error)]

\* C3: whenever no handler is running, the four fields of the result are those
\* of one jacobian evaluation, the first that reached the minimum total_error
\* (a tie does not replace it), or all four are still unset.
C3_AtomicUpdate ==
    Quiescent =>
        \/ result = GrapeLindbladResult /\ jacobians = <<>>
        \/ \E k \in 1..Len(jacobians) :
              /\ result = ResultOf(jacobians[k])
              /\ Some(jacobians[k].total_error) = MinError(jacobians)
              /\ \A n \in 1..(k - 1) :
                    jacobians[n].total_error > jacobians[k].total_error

\* C4: whenever no handler is running, log_and_save has been called once for
\* every jacobian evaluation, in order, with its controls, final densities,
\* total_error, gradient and iteration number, and the iteration counter has
\* been incremented once for each.
C4_LoggedEveryEvaluation ==
    (Quiescent /\ pstate.entry = "grape" /\ ~IsNone(reporter.iteration)) =>
        /\ Len(saved) = Len(jacobians)
        /\ reporter.iteration = Some(Len(jacobians))
        /\ \A k \in 1..Len(saved) :
              saved[k] = [controls |-> jacobians[k].controls,
                          final_densities |-> jacobians[k].final_densities,
                          total_error |-> jacobians[k].total_error,
                          grads |-> Gradient(jacobians[k].controls),
                          iteration |-> k - 1]

\* the names of the costs invoked at a system step, in order
RECURSIVE NamesAt(_, _)
NamesAt(log, step) ==
    IF log = <<>> THEN <<>>
    ELSE (IF Head(log).system_step = step THEN <<Head(log).name>> ELSE <<>>)
         \o NamesAt(Tail(log), step)

is_terminal_cost(name) == ~requires_step_evaluation(name)
TerminalCosts == SelectSeq(pstate.costs, is_terminal_cost)

\* what a returned evaluation leaves apart from the costs it chose: each cost was
\* given its step's output batch, total_error is the sum of the contributions,
\* and the reporter holds the final batch and that total_error
ContributionsAccounted ==
    /\ \A k \in 1..Len(cost_log) :
          Some(cost_log[k].densities) = step_log[cost_log[k].system_step + 1].output
    /\ total_error = sum_errors(cost_log)
    /\ reporter.total_error = Some(total_error)
    /\ ~IsNone(reporter.final_densities)
    /\ Some(Get(reporter.final_densities).value) =
          step_log[pstate.final_system_step + 1].output

\* C5 as stated: a returned evaluation has evaluated exactly the terminal costs
\* at the final system step and exactly the step costs at every other step, and
\* its total_error is the sum of the contributions, recorded with the final batch.
C5_OnlyTerminalCostsAtFinalStep ==
    EvaluationReturned =>
        /\ \A step \in 0..pstate.final_system_step :
              NamesAt(cost_log, step) =
                  IF step = pstate.final_system_step THEN TerminalCosts
                  ELSE pstate.step_costs
        /\ ContributionsAccounted

\* C5 amended: a returned evaluation has evaluated every configured cost, step
\* costs included, once at the final system step and exactly the step costs once
\* at every other step, each against that step's output batch; the returned
\* total_error is the sum of the contributions, and the reporter records the
\* final batch and that total_error.
C5_AllCostsAtFinalStep ==
    /\ EvaluationReturned =>
          /\ \A step \in 0..pstate.final_system_step :
                NamesAt(cost_log, step) =
                    IF step = pstate.final_system_step THEN pstate.costs
                    ELSE pstate.step_costs
          /\ ContributionsAccounted
    /\ pc = "loop" =>
          \A k \in 1..Len(cost_log) :
              /\ cost_log[k].system_step < pstate.final_system_step
              /\ requires_step_evaluation(cost_log[k].name)

\* C5 witness: an evaluation of several steps with a step cost and a terminal
\* cost has returned a total_error to which both contributed.
C5_Witness ==
    /\ EvaluationReturned
    /\ pstate.costs = <<"forbid", "target">>
    /\ pstate.final_system_step >= 1
    /\ \E k \in 1..Len(cost_log) : cost_log[k].name = "forbid" /\ cost_log[k].error > 0
    /\ \E k \in 1..Len(cost_log) : cost_log[k].name = "target" /\ cost_log[k].error > 0

\* C6: with controls supplied, every integrator invocation reads its bounding
\* controls from two adjacent indices within 0..control_step_count-1:
\* (control_step-1, control_step) at the final control step and
\* (control_step, control_step+1) otherwise.
C6_AdjacentValidIndices ==
    \A k \in 1..Len(step_log) :
        ~IsNone(step_log[k].left) =>
            LET e == step_log[k]
                l == Get(e.left)
                r == Get(e.right)
            IN /\ l \in 0..(pstate.control_step_count - 1)
               /\ r \in 0..(pstate.control_step_count - 1)
               /\ r = l + 1
               /\ <<l, r>> = IF e.control_step = pstate.final_control_step
                             THEN <<e.control_step - 1, e.control_step>>
                             ELSE <<e.control_step, e.control_step + 1>>

\* the order of two steps in the current wrapper call
RECURSIVE IndexOf(_, _)
IndexOf(seq, x) ==
    IF seq = <<>> THEN 0
    ELSE IF seq[Len(seq)] = x /\ IndexOf(SubSeq(seq, 1, Len(seq) - 1), x) = 0
         THEN Len(seq)
    ELSE IndexOf(SubSeq(seq, 1, Len(seq) - 1), x)
Before(x, y) == IndexOf(events, x) > 0 /\ IndexOf(events, x) < IndexOf(events, y)

\* C7 as stated: in a gradient evaluation the clip runs inside the differentiated
\* computation, after the jacobian has started and before it returns.
C7_ClipInsideJacobian ==
    (mode = "eldj" /\ pc \in {"post", "optimizer"}) =>
        /\ Before("slap_controls", "clip_control_norms")
        /\ Before("ans_jacobian", "clip_control_norms")
        /\ Before("clip_control_norms", "_evaluate_lindblad_discrete")
        /\ Before("clip_control_norms", "ans_jacobian returns")

\* C7 amended: in a gradient evaluation the clip runs outside the differentiated
\* computation: after unpacking and before the jacobian starts, so that the
\* differentiated evolution is handed the clipped controls.
C7_ClipBeforeJacobian ==
    mode = "eldj" =>
        /\ Before("slap_controls", "clip_control_norms")
        /\ Before("clip_control_norms", "ans_jacobian")
        /\ Before("ans_jacobian", "_evaluate_lindblad_discrete")
        /\ controls = clip_control_norms(pstate.max_control_norms, controls)
        /\ pc \in {"post", "optimizer", "returned"} =>
              /\ Before("_evaluate_lindblad_discrete", "ans_jacobian returns")
              /\ jacobians[Len(jacobians)].controls = controls

\* C7 witness: a jacobian has returned for controls that the clip changed.
C7_Witness ==
    /\ mode = "eldj"
    /\ pc = "post"
    /\ controls # slap_controls(flat, pstate.controls_shape)

\* the evaluation was stopped by the configuration error at its first
\* integration step, with nothing evaluated and nothing recorded
FailedAtFirstUse ==
    /\ pc = "error"
    /\ error = Some("ValueError")
    /\ Len(step_log) = 1
    /\ step_log[1].system_step = 0
    /\ IsNone(step_log[1].output)
    /\ cost_log = <<>>
    /\ IsNone(reporter.final_densities)
    /\ IsNone(reporter.total_error)

\* the evaluation was set up and has not reached its first integration step
SetUpNotStarted == pc = "loop" /\ system_step = 0 /\ step_log = <<>>

\* C8 as stated: every evaluation configured with a policy other than LINEAR is
\* set up without error and then fails at its first integration step with a
\* configuration error, no cost evaluated and nothing recorded in the reporter.
C8_NonLinearPolicyFails ==
    (pstate.interpolation_policy # LINEAR /\ mode # "none") =>
        SetUpNotStarted \/ FailedAtFirstUse

\* C8 amended: an evaluation with controls supplied and a policy other than
\* LINEAR is set up without error and then fails at its first integration step
\* with a configuration error, no cost evaluated and nothing recorded in the
\* reporter; an evaluation without controls never consults the policy and raises
\* no configuration error.
C8_NonLinearPolicyFailsWithControls ==
    (pstate.interpolation_policy # LINEAR /\ mode # "none") =>
        IF IsNone(controls) THEN error # Some("ValueError")
        ELSE SetUpNotStarted \/ FailedAtFirstUse

\* C8 witness: a gradient evaluation under the other policy was stopped at its
\* first integration step.
C8_Witness ==
    /\ pstate.interpolation_policy = CUBIC
    /\ mode = "eldj"
    /\ FailedAtFirstUse

\* C9: the integrator invocations of an evaluation are those of system steps
\* 0, 1, 2, ... in order, the first on the initial densities and each later one
\* on the previous output, at time system_step * dt and at the control step
\* floor(system_step / system_step_multiplier), which never decreases; a returned
\* evaluation has made one invocation for each system step up to
\* final_system_step and has used every control index for exactly
\* system_step_multiplier consecutive system steps.
C9_OneInvocationPerSystemStep ==
    /\ \A k \in 1..Len(step_log) :
          LET e == step_log[k]
          IN /\ e.system_step = k - 1
             /\ e.time = (k - 1) * pstate.dt
             /\ e.control_step * pstate.system_step_multiplier <= e.system_step
             /\ e.system_step < (e.control_step + 1) * pstate.system_step_multiplier
             /\ e.input = IF k = 1 THEN pstate.initial_densities
                          ELSE Get(step_log[k - 1].output)
             /\ k > 1 => step_log[k - 1].control_step <= e.control_step
    /\ pc = "loop" => Len(step_log) = system_step
    /\ EvaluationReturned =>
          /\ Len(step_log) = pstate.final_system_step + 1
          /\ \A cs \in 0..(pstate.control_step_count - 1) :
                {k \in 1..Len(step_log) : step_log[k].control_step = cs} =
                    (cs * pstate.system_step_multiplier + 1)
                      ..((cs + 1) * pstate.system_step_multiplier)

\* C9 witness: an evaluation over several control steps of several system steps
\* each has returned.
C9_Witness ==
    /\ EvaluationReturned
    /\ pstate.control_step_count >= 2
    /\ pstate.system_step_multiplier >= 2
    /\ step_log[Len(step_log)].control_step = pstate.control_step_count - 1

ZeroBatch(n) == [i \in 1..n |-> ZeroMatrix]

\* C10: with the Hamiltonian and the Lindblad data both absent, every integration
\* step has four zero increments and returns its input batch, and a returned
\* evaluation reports the initial densities as final densities.
C10_IdentityWithoutGenerators ==
    (IsNone(pstate.hamiltonian) /\ IsNone(pstate.lindblad_data)) =>
        /\ \A k \in 1..Len(step_log) :
              LET e == step_log[k]
                  r == _evolve_step_lindblad_discrete(
                           e.input, pstate.dt, e.time, e.control_sentinel,
                           e.control_step, controls, pstate.hamiltonian,
                           pstate.interpolation_policy, pstate.lindblad_data)
              IN ~IsNone(e.output) =>
                    /\ e.output = Some(e.input)
                    /\ r.k1 = ZeroBatch(Len(e.input))
                    /\ r.k2 = ZeroBatch(Len(e.input))
                    /\ r.k3 = ZeroBatch(Len(e.input))
                    /\ r.k4 = ZeroBatch(Len(e.input))
        /\ EvaluationReturned =>
              Get(reporter.final_densities).value = pstate.initial_densities

\* C10 witness: an evaluation of several steps, with controls supplied and a batch
\* of two densities but no Hamiltonian and no Lindblad data, has returned.
C10_Witness ==
    /\ EvaluationReturned
    /\ IsNone(pstate.hamiltonian) /\ IsNone(pstate.lindblad_data)
    /\ ~IsNone(controls)
    /\ Len(step_log) >= 2
    /\ Len(pstate.initial_densities) = 2
    /\ \E k \in 1..Len(controls) : controls[k][1] # 0


\* ------------------------------------------------------------------ C11
\* C11: for every structured control array of shape (control_step_count,
\* control_count), real or complex, unpacking the packed array gives the array
\* back exactly: the controls that the wrappers rebuild from the flat initial
\* vector are the initial controls, and the flat vector holds one real per real
\* control and two per complex control.
C11_SlapInvertsStrip ==
    /\ roundtrip.stage = "stripped" =>
          Len(roundtrip.flat) =
              (IF pstate.complex_controls THEN 2 ELSE 1)
                  * pstate.controls_shape[1] * pstate.controls_shape[2]
    /\ roundtrip.stage = "slapped" => roundtrip.controls = pstate.initial_controls

\* a complex 2 x 2 array whose real and imaginary parts differ has made the trip
C11_Witness ==
    /\ roundtrip.stage = "slapped"
    /\ pstate.complex_controls
    /\ pstate.controls_shape = <<2, 2>>
    /\ pstate.initial_controls[1][2] = <<0, -2 * FP>>
    /\ pstate.initial_controls[2][1] = <<-2 * FP, 0>>
    /\ roundtrip.controls[2][1] = <<-2 * FP, 0>>

\* ------------------------------------------------------------------ C12
\* the last integration step of the current evaluation has produced the final
\* densities, so the costs of the final system step have been reached
FinalStepIntegrated ==
    /\ mode # "none"
    /\ pc # "loop"
    /\ Len(step_log) = pstate.final_system_step + 1
    /\ ~IsNone(step_log[Len(step_log)].output)

TargetDensityInfidelityCalls ==
    SelectSeq(cost_log, LAMBDA call : call.name = TargetDensityInfidelity)

\* C12: a TargetDensityInfidelity supplied as a cost is invoked successfully
\* exactly once per evaluation, at the final system step, and its result is added
\* to total_error; the invocation has no error outcome.
C12_TargetDensityInfidelityInvoked ==
    (/\ FinalStepIntegrated
     /\ \E k \in 1..Len(pstate.costs) : pstate.costs[k] = TargetDensityInfidelity) =>
        /\ error # Some("TypeError")
        /\ Len(TargetDensityInfidelityCalls) = 1
        /\ TargetDensityInfidelityCalls[1].system_step = pstate.final_system_step
        /\ total_error = sum_errors(cost_log)

\* ------------------------------------------------------------------ C13
\* C13: within one evaluation with controls supplied and at least two control
\* steps, the right-bound control of every system step is the same entry of the
\* control array as the left-bound control of the next system step, the step into
\* the final control step included.
C13_ContinuousAcrossSteps ==
    (~IsNone(controls) /\ pstate.control_step_count >= 2) =>
        \A k \in 1..(Len(step_log) - 1) :
            Get(step_log[k].right) = Get(step_log[k + 1].left)

\* ------------------------------------------------------------------ C14
\* what _evaluate_lindblad_discrete computes for the controls c from system step
\* `step` on, by the loop of lines 275-304, when no step raises
RECURSIVE EvaluationFrom(_, _, _, _)
EvaluationFrom(c, step, rho, total) ==
    LET control_step == control_step_at(step)
        is_final_system_step == step = pstate.final_system_step
        evolved == _evolve_step_lindblad_discrete(
                       rho, pstate.dt, time_at(step),
                       control_step = pstate.final_control_step, control_step, c,
                       pstate.hamiltonian, pstate.interpolation_policy,
                       pstate.lindblad_data).densities
        accumulated ==
            total + sum_errors(cost_calls(costs_at(is_final_system_step), c,
                                          evolved, step))
    IN IF is_final_system_step
       THEN [final_densities |-> evolved, total_error |-> accumulated]
       ELSE EvaluationFrom(c, step + 1, evolved, accumulated)

EvaluationOf(c) == EvaluationFrom(c, 0, pstate.initial_densities, 0)

\* C14: once a gradient evaluation has completed and best_total_error is finite,
\* the four fields of the result describe one completed gradient evaluation:
\* best_final_densities and best_total_error are what evolving best_controls
\* produces, best_iteration is the value the iteration counter had during that
\* evaluation and is below the counter's current value, and that evaluation is
\* the earliest one whose total_error is the minimum over the completed ones.
C14_BestDescribesOneEvaluation ==
    (Len(saved) >= 1 /\ ~IsNone(result.best_total_error)) =>
        LET k == Get(result.best_iteration) + 1
        IN /\ k \in 1..Len(saved)
           /\ saved[k].iteration = Get(result.best_iteration)
           /\ result.best_controls = Some(saved[k].controls)
           /\ result.best_final_densities = Some(saved[k].final_densities)
           /\ result.best_total_error = Some(saved[k].total_error)
           /\ EvaluationOf(Get(result.best_controls)) =
                  [final_densities |-> Get(result.best_final_densities),
                   total_error |-> Get(result.best_total_error)]
           /\ Get(result.best_iteration) < Get(reporter.iteration)
           /\ \A j \in 1..Len(saved) : saved[k].total_error <= saved[j].total_error
           /\ \A j \in 1..(k - 1) : saved[k].total_error < saved[j].total_error

\* C14 witness: the second gradient evaluation reached, with other controls, the
\* nonzero total_error of the first, and the result still describes the first.
C14_Witness ==
    /\ Len(saved) = 2
    /\ saved[2].total_error = saved[1].total_error
    /\ saved[1].total_error > 0
    /\ saved[2].controls # saved[1].controls
    /\ result.best_iteration = Some(0)
    /\ result.best_controls = Some(saved[1].controls)

\* ------------------------------------------------------------------ C15
\* C15: no step of an objective-only evaluation (_eld_wrap and the evaluation it
\* runs) changes the four fields of the result or the iteration counter, calls
\* log_and_save or differentiates, whatever the controls and the total_error; of
\* the reporter it changes final_densities and total_error only, and it leaves the
\* program state alone.
C15_ObjectiveOnlyLeavesResult ==
    [][mode' = "eld" =>
          /\ result' = result
          /\ reporter'.iteration = reporter.iteration
          /\ saved' = saved
          /\ jacobians' = jacobians
          /\ pstate' = pstate]_vars

\* C15 witness: an objective-only evaluation has returned a total_error below the
\* stored best_total_error, and the result still describes the gradient
\* evaluation before it.
C15_Witness ==
    /\ mode = "eld"
    /\ pc = "optimizer"
    /\ calls = 2
    /\ Len(saved) = 1
    /\ ~IsNone(reporter.total_error)
    /\ Get(reporter.total_error) < Get(result.best_total_error)
    /\ result.best_iteration = Some(0)
    /\ reporter.iteration = Some(1)
    /\ Get(reporter.final_densities).value # Get(result.best_final_densities)

====
